---- MODULE Spec2Model ----
(***************************************************************************)
(* Model of the 2048 board engine of game_2048 (src/src/game.rs) and of    *)
(* its driver loop (src/src/main.rs).                                      *)
(*                                                                         *)
(* A board is a function  0..height-1 -> (0..width-1 -> Nat), indexed as   *)
(* in the source (board[row][column]).  Every operation of Game that       *)
(* mutates self is an operator from a record [board, score, panic] to the  *)
(* record after the call; panic is TRUE when the call ended in a Rust      *)
(* panic (a usize subtraction below 0 with overflow checks on, or an index *)
(* out of bounds) and board/score are then the values at that point.       *)
(***************************************************************************)
EXTENDS Integers, Sequences, FiniteSets, TLC

VARIABLES
    config,            \* Game::config : BoardConfig {width, height, count}
    overflow_checks,   \* build profile: TRUE = overflow checks (debug), FALSE = wrapping (release)
    pc,                \* position of main: "start", "loop", "match", "done", "panic"; "grid" in SpecMoves
    board,             \* Game::board
    score,             \* Game::score
    result,            \* what the last call returned to main (GameResult, factory error, ...)
    input,             \* the Key the last play_move read from getch ("none" if it read nothing)
    board_before_move, \* the board when the last play_move started (its snapshot, line 241)
    score_before,      \* the score when the last play_move started
    slid,              \* the board right after the slide of the last play_move, before any injection
    unique_positions,  \* random_board's set of chosen positions ({} once the game is played)
    moves              \* number of successful moves of this game (bounds the exploration)

vars == <<config, overflow_checks, pc, board, score, result, input,
          board_before_move, score_before, slid, unique_positions, moves>>

----------------------------------------------------------------------------
(* Bounds of the model *)

\* largest number of cells (width * height) of a game played in Spec
MaxCells == 4
\* a game of Spec is explored up to MaxMoves successful moves
MaxMoves == 4
\* largest number of cells of a game played to its end in SpecGame and SpecLive
MaxGameCells == 3
\* largest number of cells of a grid drawn in SpecMoves
MaxGridCells == 4
\* tiles of a grid drawn in SpecMoves are 0 or 2^1 .. 2^MaxTileExp
MaxTileExp == 2

----------------------------------------------------------------------------
(* Integer arithmetic of the source *)
(* Tiles and the score are u32.  Every value of the model stays far below  *)
(* 2^31 (a tile is at most 2^(cells+1)), so u32 arithmetic coincides with  *)
(* integer arithmetic on every value the model computes; TLC stops with an *)
(* overflow error, not a wrong value, if a value ever left that range.     *)

RECURSIVE Pow2(_)
Pow2(n) == IF n = 0 THEN 1 ELSE 2 * Pow2(n - 1)

\* a merge that adds the value of a new tile instead of doubling
shl1_plus_two(v) == v + 2

\* `x <<= 1` on a u32
shl1(v) == v * 2

\* `j -= 1` on a usize: [value, panic].  At j = 0 the build decides: a panic
\* with overflow checks, else the wrapped value usize::MAX, written -1 here
\* (no index of any array).
usize_dec(j) ==
    IF j = 0
    THEN IF overflow_checks THEN [value |-> 0, panic |-> TRUE]
                            ELSE [value |-> -1, panic |-> FALSE]
    ELSE [value |-> j - 1, panic |-> FALSE]

----------------------------------------------------------------------------
(* Game::apply_score: `self.score += value` *)

apply_score_half(s, value) == s + (value \div 2)

apply_score(s, value) == s + value

----------------------------------------------------------------------------
(* move_zeroes_end / move_zeroes_start on one row (a function 0..n-1 -> Nat) *)

len(array) == Cardinality(DOMAIN array)

RECURSIVE mze_loop(_, _, _)
mze_loop(array, i, j) ==
    IF i >= len(array) THEN array
    ELSE IF array[i] # 0
         THEN mze_loop([array EXCEPT ![i] = array[j], ![j] = array[i]], i + 1, j + 1)
         ELSE mze_loop(array, i + 1, j)

move_zeroes_end(array) ==
    IF len(array) = 0 THEN array ELSE mze_loop(array, 0, 0)

\* the loop `for i in (0..len).rev()`; r = [array, panic]
RECURSIVE mzs_loop(_, _, _)
mzs_loop(r, i, j) ==
    IF i < 0 \/ r.panic THEN r
    ELSE IF r.array[i] # 0
         THEN IF j \notin DOMAIN r.array
              THEN [r EXCEPT !.panic = TRUE]   \* index out of bounds
              ELSE LET swapped == [r.array EXCEPT ![i] = r.array[j], ![j] = r.array[i]]
                       d == usize_dec(j)
                   IN  mzs_loop([array |-> swapped, panic |-> d.panic], i - 1, d.value)
         ELSE mzs_loop(r, i - 1, j)

move_zeroes_start(array) ==
    IF len(array) = 0 THEN [array |-> array, panic |-> FALSE]
    ELSE mzs_loop([array |-> array, panic |-> FALSE], len(array) - 1, len(array) - 1)

----------------------------------------------------------------------------
(* Game::move_left *)

\* left_next looking at the adjacent cell only, zero or not
left_next_adjacent(b, row, j, width) ==
    IF j >= width THEN -1 ELSE j

\* inner loop `for j in (i + 1)..width`: the first non-zero cell, or -1
RECURSIVE left_next(_, _, _, _)
left_next(b, row, j, width) ==
    IF j >= width THEN -1
    ELSE IF b[row][j] = 0 THEN left_next(b, row, j + 1, width) ELSE j

\* left_merge that leaves the second tile of the pair in place
left_merge_keeping_both(st, row, i, j) ==
    LET doubled == shl1(st.board[row][i])
    IN  [st EXCEPT !.board[row][i] = doubled,
                   !.score = apply_score(@, doubled)]

left_merge(st, row, i, j) ==
    LET doubled == shl1(st.board[row][i])
    IN  [st EXCEPT !.board[row][i] = doubled,
                   !.score = apply_score(@, doubled),
                   !.board[row][j] = 0]

\* left_cell that keeps searching past a different tile for an equal one
left_cell_searching_on(st, row, i, width) ==
    IF st.board[row][i] = 0 THEN st
    ELSE LET equal == {j \in (i + 1)..(width - 1) : st.board[row][j] = st.board[row][i]}
         IN  IF equal # {}
             THEN left_merge(st, row, i, CHOOSE j \in equal : \A k \in equal : j <= k)
             ELSE st

left_cell(st, row, i, width) ==
    IF st.board[row][i] = 0 THEN st
    ELSE LET j == left_next(st.board, row, i + 1, width)
         IN  IF j # -1 /\ st.board[row][i] = st.board[row][j]
             THEN left_merge(st, row, i, j)
             ELSE st

RECURSIVE left_cells(_, _, _, _)
left_cells(st, row, i, width) ==
    IF i >= width THEN st
    ELSE left_cells(left_cell(st, row, i, width), row, i + 1, width)

RECURSIVE left_rows(_, _, _, _)
left_rows(st, row, width, height) ==
    IF row >= height THEN st
    ELSE left_rows(left_cells(st, row, 0, width), row + 1, width, height)

move_left(st, width, height) ==
    LET merged == left_rows(st, 0, width, height)
    IN  [merged EXCEPT !.board = [row \in DOMAIN merged.board |->
                                     move_zeroes_end(merged.board[row])]]

----------------------------------------------------------------------------
(* Game::move_right *)

\* inner loop `for j in (0..i).rev()`, entered at j: the first non-zero cell, or -1
RECURSIVE right_next(_, _, _)
right_next(b, row, j) ==
    IF j < 0 THEN -1
    ELSE IF b[row][j] = 0 THEN right_next(b, row, j - 1) ELSE j

right_merge(st, row, i, j) ==
    LET doubled == shl1(st.board[row][i])
    IN  [st EXCEPT !.board[row][i] = doubled,
                   !.score = apply_score(@, doubled),
                   !.board[row][j] = 0]

right_cell(st, row, i) ==
    IF st.board[row][i] = 0 THEN st
    ELSE LET j == right_next(st.board, row, i - 1)
         IN  IF j # -1 /\ st.board[row][i] = st.board[row][j]
             THEN right_merge(st, row, i, j)
             ELSE st

RECURSIVE right_cells(_, _, _)
right_cells(st, row, i) ==
    IF i < 0 THEN st
    ELSE right_cells(right_cell(st, row, i), row, i - 1)

RECURSIVE right_rows(_, _, _, _)
right_rows(st, row, width, height) ==
    IF row >= height THEN st
    ELSE right_rows(right_cells(st, row, width - 1), row + 1, width, height)

\* `self.board.iter_mut().for_each(|row| move_zeroes_start(row))`, from row on
RECURSIVE right_compact(_, _)
right_compact(st, row) ==
    IF row >= len(st.board) \/ st.panic THEN st
    ELSE LET r == move_zeroes_start(st.board[row])
         IN  right_compact([st EXCEPT !.board[row] = r.array, !.panic = r.panic], row + 1)

move_right(st, width, height) ==
    right_compact(right_rows(st, 0, width, height), 0)

----------------------------------------------------------------------------
(* Game::move_up *)

\* inner loop `for j in (i + 1)..height`: the first non-zero cell, or -1
RECURSIVE up_next(_, _, _, _)
up_next(b, column, j, height) ==
    IF j >= height THEN -1
    ELSE IF b[j][column] = 0 THEN up_next(b, column, j + 1, height) ELSE j

up_merge(st, column, i, j) ==
    LET doubled == shl1(st.board[i][column])
    IN  [st EXCEPT !.board[i][column] = doubled,
                   !.score = apply_score(@, doubled),
                   !.board[j][column] = 0]

up_cell(st, column, i, height) ==
    IF st.board[i][column] = 0 THEN st
    ELSE LET j == up_next(st.board, column, i + 1, height)
         IN  IF j # -1 /\ st.board[i][column] = st.board[j][column]
             THEN up_merge(st, column, i, j)
             ELSE st

RECURSIVE up_cells(_, _, _, _)
up_cells(st, column, i, height) ==
    IF i >= height THEN st
    ELSE up_cells(up_cell(st, column, i, height), column, i + 1, height)

RECURSIVE up_columns(_, _, _, _)
up_columns(st, column, width, height) ==
    IF column >= width THEN st
    ELSE up_columns(up_cells(st, column, 0, height), column + 1, width, height)

\* compaction of one column: `for i in 0..height`, write index j
RECURSIVE up_compact_column(_, _, _, _, _)
up_compact_column(b, column, i, j, height) ==
    IF i >= height THEN b
    ELSE IF b[i][column] # 0
         THEN up_compact_column([b EXCEPT ![i][column] = b[j][column],
                                          ![j][column] = b[i][column]],
                                column, i + 1, j + 1, height)
         ELSE up_compact_column(b, column, i + 1, j, height)

RECURSIVE up_compact(_, _, _, _)
up_compact(b, column, width, height) ==
    IF column >= width THEN b
    ELSE up_compact(up_compact_column(b, column, 0, 0, height), column + 1, width, height)

move_up(st, width, height) ==
    LET merged == up_columns(st, 0, width, height)
    IN  [merged EXCEPT !.board = up_compact(merged.board, 0, width, height)]

----------------------------------------------------------------------------
(* Game::move_down *)

\* inner loop `for j in (0..i).rev()`, entered at j: the first non-zero cell, or -1
RECURSIVE down_next(_, _, _)
down_next(b, column, j) ==
    IF j < 0 THEN -1
    ELSE IF b[j][column] = 0 THEN down_next(b, column, j - 1) ELSE j

down_merge(st, column, i, j) ==
    LET doubled == shl1(st.board[i][column])
    IN  [st EXCEPT !.board[i][column] = doubled,
                   !.score = apply_score(@, doubled),
                   !.board[j][column] = 0]

down_cell(st, column, i) ==
    IF st.board[i][column] = 0 THEN st
    ELSE LET j == down_next(st.board, column, i - 1)
         IN  IF j # -1 /\ st.board[i][column] = st.board[j][column]
             THEN down_merge(st, column, i, j)
             ELSE st

RECURSIVE down_cells(_, _, _)
down_cells(st, column, i) ==
    IF i < 0 THEN st
    ELSE down_cells(down_cell(st, column, i), column, i - 1)

RECURSIVE down_columns(_, _, _, _)
down_columns(st, column, width, height) ==
    IF column >= width THEN st
    ELSE down_columns(down_cells(st, column, height - 1), column + 1, width, height)

\* compaction of one column: `for i in (0..height).rev()`, write index j (a usize)
RECURSIVE down_compact_column(_, _, _, _)
down_compact_column(st, column, i, j) ==
    IF i < 0 \/ st.panic THEN st
    ELSE IF st.board[i][column] # 0
         THEN IF j \notin DOMAIN st.board
              THEN [st EXCEPT !.panic = TRUE]   \* index out of bounds
              ELSE LET b == st.board
                       swapped == [b EXCEPT ![i][column] = b[j][column],
                                            ![j][column] = b[i][column]]
                       d == usize_dec(j)
                   IN  down_compact_column([st EXCEPT !.board = swapped, !.panic = d.panic],
                                           column, i - 1, d.value)
         ELSE down_compact_column(st, column, i - 1, j)

RECURSIVE down_compact(_, _, _, _)
down_compact(st, column, width, height) ==
    IF column >= width \/ st.panic THEN st
    ELSE down_compact(down_compact_column(st, column, height - 1, height - 1),
                      column + 1, width, height)

move_down(st, width, height) ==
    down_compact(down_columns(st, 0, width, height), 0, width, height)

----------------------------------------------------------------------------
(* equal_boards *)

equal_boards(a, b) ==
    IF len(a) # len(b) THEN FALSE
    ELSE \A row \in 0..(len(a) - 1) :
            /\ len(a[row]) = len(b[row])
            /\ \A i \in 0..(len(a[row]) - 1) : a[row][i] = b[row][i]

----------------------------------------------------------------------------
(* Game::game_over.  Its four neighbour searches are the loops of the four *)
(* moves without the mutation, so they use the moves' *_next operators.    *)

has_zero(b, width, height) ==
    \E i \in 0..(height - 1) : \E j \in 0..(width - 1) : b[i][j] = 0

left_possible(b, width, height) ==
    \E row \in 0..(height - 1) : \E i \in 0..(width - 1) :
        /\ b[row][i] # 0
        /\ LET j == left_next(b, row, i + 1, width)
           IN  j # -1 /\ b[row][i] = b[row][j]

right_possible(b, width, height) ==
    \E row \in 0..(height - 1) : \E i \in 0..(width - 1) :
        /\ b[row][i] # 0
        /\ LET j == right_next(b, row, i - 1)
           IN  j # -1 /\ b[row][i] = b[row][j]

up_possible(b, width, height) ==
    \E column \in 0..(width - 1) : \E i \in 0..(height - 1) :
        /\ b[i][column] # 0
        /\ LET j == up_next(b, column, i + 1, height)
           IN  j # -1 /\ b[i][column] = b[j][column]

down_possible(b, width, height) ==
    \E column \in 0..(width - 1) : \E i \in 0..(height - 1) :
        /\ b[i][column] # 0
        /\ LET j == down_next(b, column, i - 1)
           IN  j # -1 /\ b[i][column] = b[j][column]

game_over_ignoring_columns(b, width, height) ==
    IF has_zero(b, width, height) THEN FALSE
    ELSE IF left_possible(b, width, height) THEN FALSE
    ELSE IF right_possible(b, width, height) THEN FALSE
    ELSE TRUE

game_over(b, width, height) ==
    IF has_zero(b, width, height) THEN FALSE
    ELSE IF left_possible(b, width, height) THEN FALSE
    ELSE IF right_possible(b, width, height) THEN FALSE
    ELSE IF up_possible(b, width, height) THEN FALSE
    ELSE IF down_possible(b, width, height) THEN FALSE
    ELSE TRUE

----------------------------------------------------------------------------
(* random_tile, random_board, Game::new_game *)

\* the values random_tile can return
\* random_tile that can also give an 8
random_tile_or_eight == {2, 4, 8}

random_tile == {2, 4}

Positions(c) == (0..(c.height - 1)) \X (0..(c.width - 1))

\* random_board without its "Full board!" return
random_board_error_no_full(c) ==
    IF c.count = 0 THEN "Empty board!"
    ELSE IF c.count > c.width * c.height THEN "Overflow!"
    ELSE "none"

\* the three early returns of random_board, "none" when it goes on
random_board_error(c) ==
    IF c.count = 0 THEN "Empty board!"
    ELSE IF c.count = c.width * c.height THEN "Full board!"
    ELSE IF c.count > c.width * c.height THEN "Overflow!"
    ELSE "none"

\* the sets the loop `while unique_positions.len() != config.count` can end
\* with, entered with the set chosen: each round draws a position in range and
\* inserts it if it is new (a draw of a chosen position changes nothing)
RECURSIVE sample_positions(_, _)
sample_positions(c, chosen) ==
    IF Cardinality(chosen) = c.count THEN {chosen}
    ELSE UNION {sample_positions(c, chosen \cup {position}) :
                    position \in Positions(c) \ chosen}

\* fill_board writing a tile at the first chosen position only
fill_board_first_only(c, chosen) ==
    LET first == CHOOSE position \in chosen : TRUE
    IN  {[i \in 0..(c.height - 1) |-> [j \in 0..(c.width - 1) |->
            IF <<i, j>> = first THEN tile ELSE 0]] : tile \in random_tile}

\* the boards random_board can return for the positions chosen
fill_board(c, chosen) ==
    {[i \in 0..(c.height - 1) |-> [j \in 0..(c.width - 1) |->
          IF <<i, j>> \in chosen THEN values[<<i, j>>] ELSE 0]] :
       values \in [chosen -> random_tile]}

----------------------------------------------------------------------------
(* Game::add_random_tile: the boards it can leave *)

free_tiles(b, width, height) ==
    {position \in (0..(height - 1)) \X (0..(width - 1)) : b[position[1]][position[2]] = 0}

\* add_random_tile drawing its position among all cells, free or not
add_random_tile_any_cell(b, width, height) ==
    {[b EXCEPT ![position[1]][position[2]] = tile] :
        position \in (0..(height - 1)) \X (0..(width - 1)), tile \in random_tile}

add_random_tile(b, width, height) ==
    IF Cardinality(free_tiles(b, width, height)) = 0 THEN {b}
    ELSE {[b EXCEPT ![position[1]][position[2]] = tile] :
             position \in free_tiles(b, width, height), tile \in random_tile}

----------------------------------------------------------------------------
(* Keypress::try_from *)

\* the keys drawn as input: one key of each direction, the reset and quit keys
\* in two spellings, and a key try_from does not name
Keys == {"w", "Down", "A", "d", "r", "R", "q", "Esc", "x"}

\* try_from taking every key it does not name for a direction
try_from_default_left(key) ==
    CASE key \in {"w", "W", "Up"}    -> "Up"
      [] key \in {"s", "S", "Down"}  -> "Down"
      [] key \in {"d", "D", "Right"} -> "Right"
      [] key \in {"r", "R"}          -> "Reset"
      [] key \in {"q", "Q", "Esc"}   -> "Quit"
      [] OTHER                       -> "Left"

try_from(key) ==
    CASE key \in {"w", "W", "Up"}    -> "Up"
      [] key \in {"s", "S", "Down"}  -> "Down"
      [] key \in {"a", "A", "Left"}  -> "Left"
      [] key \in {"d", "D", "Right"} -> "Right"
      [] key \in {"r", "R"}          -> "Reset"
      [] key \in {"q", "Q", "Esc"}   -> "Quit"
      [] OTHER                       -> "Invalid Key"

Directions == {"Up", "Down", "Left", "Right"}

\* the `match keypress` of play_move for a direction
slide(st, keypress, width, height) ==
    CASE keypress = "Left"  -> move_left(st, width, height)
      [] keypress = "Right" -> move_right(st, width, height)
      [] keypress = "Up"    -> move_up(st, width, height)
      [] keypress = "Down"  -> move_down(st, width, height)

----------------------------------------------------------------------------
(* main and Game::play_move *)

Configs ==
    {c \in [width : 0..MaxCells, height : 0..MaxCells, count : 0..(MaxCells + 1)] :
        /\ c.width * c.height <= MaxCells
        /\ c.count <= c.width * c.height + 1}

NoBoard == <<>>

Init ==
    /\ config \in Configs
    /\ overflow_checks \in BOOLEAN
    /\ pc = "start"
    /\ board = NoBoard
    /\ score = 0
    /\ result = "none"
    /\ input = "none"
    /\ board_before_move = NoBoard
    /\ score_before = 0
    /\ slid = NoBoard
    /\ unique_positions = {}
    /\ moves = 0

\* Game::new_game(Some(c)) where random_board fails: main returns the error
NewGameErr(c) ==
    /\ random_board_error(c) # "none"
    /\ pc' = "done"
    /\ result' = random_board_error(c)
    /\ UNCHANGED <<config, overflow_checks, board, score, input,
                   board_before_move, score_before, slid, unique_positions, moves>>

\* NewGameOk that puts the new board into the old Game, keeping its score
NewGameOk_in_place(c) ==
    /\ random_board_error(c) = "none"
    /\ \E chosen \in sample_positions(c, {}) : \E b \in fill_board(c, chosen) :
          /\ board' = b
          /\ unique_positions' = chosen
    /\ config' = c
    /\ score' = score
    /\ pc' = "loop"
    /\ result' = "Ok"
    /\ input' = "none"
    /\ board_before_move' = NoBoard
    /\ score_before' = score
    /\ slid' = NoBoard
    /\ moves' = 0
    /\ UNCHANGED overflow_checks

\* Game::new_game(Some(c)) where random_board succeeds
NewGameOk(c) ==
    /\ random_board_error(c) = "none"
    /\ \E chosen \in sample_positions(c, {}) : \E b \in fill_board(c, chosen) :
          /\ board' = b
          /\ unique_positions' = chosen
    /\ config' = c
    /\ score' = 0
    /\ pc' = "loop"
    /\ result' = "Ok"
    /\ input' = "none"
    /\ board_before_move' = NoBoard
    /\ score_before' = 0
    /\ slid' = NoBoard
    /\ moves' = 0
    /\ UNCHANGED overflow_checks

\* main: `Game::new_game(Some(config))?`
NewGame ==
    /\ pc = "start"
    /\ (NewGameErr(config) \/ NewGameOk(config))

\* PlayGameOver that takes a key from the terminal before answering
PlayGameOver_after_getch ==
    /\ game_over(board, config.width, config.height)
    /\ result' = "GameOver"
    /\ input' \in Keys
    /\ slid' = board
    /\ UNCHANGED <<board, score, moves>>

\* play_move on a terminal board: no input is read
PlayGameOver ==
    /\ game_over(board, config.width, config.height)
    /\ result' = "GameOver"
    /\ input' = "none"
    /\ slid' = board
    /\ UNCHANGED <<board, score, moves>>

\* play_move where getch fails: the error is passed on and main returns it
PlayIoError ==
    /\ ~game_over(board, config.width, config.height)
    /\ result' = "IoError"
    /\ input' = "none"
    /\ slid' = board
    /\ UNCHANGED <<board, score, moves>>

\* play_move reading a key that is no direction
PlayOther(key) ==
    /\ ~game_over(board, config.width, config.height)
    /\ try_from(key) \notin Directions
    /\ result' = CASE try_from(key) = "Invalid Key" -> "UnknownKeyPress"
                   [] try_from(key) = "Quit"        -> "Exit"
                   [] try_from(key) = "Reset"       -> "Reset"
    /\ input' = key
    /\ slid' = board
    /\ UNCHANGED <<board, score, moves>>

\* play_move reading a direction key; a successful move adds step to moves
PlayDirectionStep(key, step) ==
    /\ ~game_over(board, config.width, config.height)
    /\ try_from(key) \in Directions
    /\ input' = key
    /\ LET st == slide([board |-> board, score |-> score, panic |-> FALSE],
                       try_from(key), config.width, config.height)
       IN  /\ slid' = st.board
           /\ score' = st.score
           /\ IF st.panic
              THEN /\ result' = "panic"
                   /\ board' = st.board
                   /\ moves' = moves
              ELSE IF equal_boards(st.board, board) = FALSE
                   THEN /\ result' = "NextMove"
                        /\ board' \in add_random_tile(st.board, config.width, config.height)
                        /\ moves' = moves + step
                   ELSE /\ result' = "NoMove"
                        /\ board' = st.board
                        /\ moves' = moves

\* play_move reading a direction key in a game explored up to MaxMoves moves
PlayDirection(key) == moves < MaxMoves /\ PlayDirectionStep(key, 1)

\* play_move reading a direction key in a game explored to its end
PlayDirectionToEnd(key) == PlayDirectionStep(key, 0)

\* main: `game.play_move(&getch)?`
PlayMoveIn(capped) ==
    /\ pc = "loop"
    /\ board_before_move' = board
    /\ score_before' = score
    /\ \/ PlayGameOver
       \/ PlayIoError
       \/ \E key \in Keys : PlayOther(key)
       \/ \E key \in Keys : IF capped THEN PlayDirection(key)
                                       ELSE PlayDirectionToEnd(key)
    /\ pc' = CASE result' = "panic"   -> "panic"
               [] result' = "IoError" -> "done"
               [] OTHER               -> "match"
    /\ unique_positions' = {}
    /\ UNCHANGED <<config, overflow_checks>>

PlayMove == PlayMoveIn(TRUE)

\* main: `match game_result`
MainMatch ==
    /\ pc = "match"
    /\ \/ /\ result \in {"Exit", "GameOver"}
          /\ pc' = "done"
          /\ UNCHANGED <<config, overflow_checks, board, score, result, input,
                         board_before_move, score_before, slid, unique_positions, moves>>
       \/ /\ result = "Reset"
          /\ (NewGameErr(config) \/ NewGameOk(config))
       \/ /\ result \in {"NextMove", "UnknownKeyPress", "NoMove"}
          /\ pc' = "loop"
          /\ result' = "none"
          /\ input' = "none"
          /\ board_before_move' = NoBoard
          /\ score_before' = score
          /\ slid' = NoBoard
          /\ UNCHANGED <<config, overflow_checks, board, score, unique_positions, moves>>

Next == NewGame \/ PlayMove \/ MainMatch

Spec == Init /\ [][Next]_vars

----------------------------------------------------------------------------
(* The same session on small boards, every game explored to its end *)

SmallConfigs ==
    {c \in [width : 0..MaxGameCells, height : 0..MaxGameCells, count : 0..(MaxGameCells + 1)] :
        /\ c.width * c.height <= MaxGameCells
        /\ c.count <= c.width * c.height + 1}

InitGame ==
    /\ config \in SmallConfigs
    /\ overflow_checks \in BOOLEAN
    /\ pc = "start"
    /\ board = NoBoard
    /\ score = 0
    /\ result = "none"
    /\ input = "none"
    /\ board_before_move = NoBoard
    /\ score_before = 0
    /\ slid = NoBoard
    /\ unique_positions = {}
    /\ moves = 0

PlayMoveToEnd == PlayMoveIn(FALSE)

NextGame == NewGame \/ PlayMoveToEnd \/ MainMatch

SpecGame == InitGame /\ [][NextGame]_vars

----------------------------------------------------------------------------
(* The moves and game_over as functions of an arbitrary grid *)

GridTiles == {0} \cup {Pow2(e) : e \in 1..MaxTileExp}

GridConfigs ==
    {c \in [width : 1..MaxGridCells, height : 1..MaxGridCells, count : {1}] :
        c.width * c.height <= MaxGridCells}

InitMoves ==
    /\ config \in GridConfigs
    /\ overflow_checks \in BOOLEAN
    /\ pc = "grid"
    /\ board \in [0..(config.height - 1) -> [0..(config.width - 1) -> GridTiles]]
    /\ score \in {0, 12}
    /\ result = "none"
    /\ input = "none"
    /\ board_before_move = board
    /\ score_before = score
    /\ slid = board
    /\ unique_positions = {}
    /\ moves = 0

\* one of move_left, move_right, move_up, move_down applied to the grid
ApplyMove ==
    /\ pc \in {"grid", "moved"}
    /\ \E key \in Directions :
          LET st == slide([board |-> board, score |-> score, panic |-> FALSE],
                          key, config.width, config.height)
          IN  /\ input' = key
              /\ board' = st.board
              /\ score' = st.score
              /\ slid' = st.board
              /\ pc' = IF st.panic THEN "panic" ELSE "moved"
              /\ result' = IF st.panic THEN "panic" ELSE "none"
    /\ board_before_move' = board
    /\ score_before' = score
    /\ UNCHANGED <<config, overflow_checks, unique_positions, moves>>

\* game_over applied to the grid
ApplyGameOver ==
    /\ pc = "grid"
    /\ pc' = "asked"
    /\ result' = IF game_over(board, config.width, config.height) THEN "true" ELSE "false"
    /\ input' = "none"
    /\ board_before_move' = board
    /\ score_before' = score
    /\ UNCHANGED <<config, overflow_checks, board, score, slid, unique_positions, moves>>

NextMoves == ApplyMove \/ ApplyGameOver

SpecMoves == InitMoves /\ [][NextMoves]_vars

----------------------------------------------------------------------------
(* random_board step by step: one round of its sampling loop per step *)

\* the loop test `unique_positions.len() != config.count` with `<` for `!=`
\* and one position less
while_condition_one_short(c, chosen) == Cardinality(chosen) + 1 < c.count

\* the loop test `unique_positions.len() != config.count`
while_condition(c, chosen) == Cardinality(chosen) # c.count

InitFactory ==
    /\ config \in Configs
    /\ overflow_checks \in BOOLEAN
    /\ pc = "random_board"
    /\ board = NoBoard
    /\ score = 0
    /\ result = "none"
    /\ input = "none"
    /\ board_before_move = NoBoard
    /\ score_before = 0
    /\ slid = NoBoard
    /\ unique_positions = {}
    /\ moves = 0

\* the three early returns, or the allocation of the empty set
EnterRandomBoard ==
    /\ pc = "random_board"
    /\ IF random_board_error(config) # "none"
       THEN /\ pc' = "done"
            /\ result' = random_board_error(config)
       ELSE /\ pc' = "while"
            /\ result' = "none"
    /\ UNCHANGED <<config, overflow_checks, board, score, input, board_before_move,
                   score_before, slid, unique_positions, moves>>

\* one round of the loop drawing the position: inserted unless contained
Draw(position) ==
    /\ pc = "while"
    /\ while_condition(config, unique_positions)
    /\ position \in Positions(config)
    /\ unique_positions' = IF position \in unique_positions
                           THEN unique_positions
                           ELSE unique_positions \cup {position}
    /\ UNCHANGED <<config, overflow_checks, pc, board, score, result, input,
                   board_before_move, score_before, slid, moves>>

\* the loop is left: the board is allocated, filled and returned
ReturnBoard ==
    /\ pc = "while"
    /\ ~while_condition(config, unique_positions)
    /\ board' \in fill_board(config, unique_positions)
    /\ pc' = "returned"
    /\ result' = "Ok"
    /\ UNCHANGED <<config, overflow_checks, score, input, board_before_move,
                   score_before, slid, unique_positions, moves>>

AllPositions == (0..(MaxCells - 1)) \X (0..(MaxCells - 1))

NextFactory ==
    \/ EnterRandomBoard
    \/ \E position \in AllPositions : Draw(position)
    \/ ReturnBoard

\* every position in range is drawn at some time while the loop runs, and
\* the steps outside the loop are taken
SpecFactory ==
    /\ InitFactory
    /\ [][NextFactory]_vars
    /\ WF_vars(EnterRandomBoard)
    /\ WF_vars(ReturnBoard)
    /\ \A position \in AllPositions : WF_vars(Draw(position))

----------------------------------------------------------------------------
(* Reference semantics of a slide, used to state the properties            *)

Width == config.width
Height == config.height

\* a board written as a sequence of rows, each a sequence of tiles
AsBoard(rows) ==
    [i \in 0..(Len(rows) - 1) |-> [j \in 0..(Len(rows[i + 1]) - 1) |-> rows[i + 1][j + 1]]]

\* line k of board b in the scan order of a direction
Line(b, direction, k) ==
    CASE direction = "Left"  -> [n \in 1..Width  |-> b[k][n - 1]]
      [] direction = "Right" -> [n \in 1..Width  |-> b[k][Width - n]]
      [] direction = "Up"    -> [n \in 1..Height |-> b[n - 1][k]]
      [] direction = "Down"  -> [n \in 1..Height |-> b[Height - n][k]]

\* the lines of a direction: rows for Left and Right, columns for Up and Down
Lines(direction) ==
    IF direction \in {"Left", "Right"} THEN 0..(Height - 1) ELSE 0..(Width - 1)

NonZero(line) == SelectSeq(line, LAMBDA v : v # 0)

\* the tiles left after merging equal neighbours once, scanning from the front
RECURSIVE Merged(_)
Merged(tiles) ==
    IF Len(tiles) < 2 THEN tiles
    ELSE IF tiles[1] = tiles[2]
         THEN <<2 * tiles[1]>> \o Merged(SubSeq(tiles, 3, Len(tiles)))
         ELSE <<tiles[1]>> \o Merged(SubSeq(tiles, 2, Len(tiles)))

\* the sum of the doubled tiles created, and their number
RECURSIVE Gain(_)
Gain(tiles) ==
    IF Len(tiles) < 2 THEN 0
    ELSE IF tiles[1] = tiles[2]
         THEN 2 * tiles[1] + Gain(SubSeq(tiles, 3, Len(tiles)))
         ELSE Gain(SubSeq(tiles, 2, Len(tiles)))

RECURSIVE Merges(_)
Merges(tiles) ==
    IF Len(tiles) < 2 THEN 0
    ELSE IF tiles[1] = tiles[2]
         THEN 1 + Merges(SubSeq(tiles, 3, Len(tiles)))
         ELSE Merges(SubSeq(tiles, 2, Len(tiles)))

\* a line after the slide: the merged tiles from the front, then zeros
SlidLine(line) ==
    LET tiles == Merged(NonZero(line))
    IN  [n \in 1..Len(line) |-> IF n <= Len(tiles) THEN tiles[n] ELSE 0]

\* the gain and the number of merges of lines 0..k of a direction
RECURSIVE GainUpTo(_, _, _)
GainUpTo(b, direction, k) ==
    IF k < 0 THEN 0
    ELSE Gain(NonZero(Line(b, direction, k))) + GainUpTo(b, direction, k - 1)

RECURSIVE MergesUpTo(_, _, _)
MergesUpTo(b, direction, k) ==
    IF k < 0 THEN 0
    ELSE Merges(NonZero(Line(b, direction, k))) + MergesUpTo(b, direction, k - 1)

GainOf(b, direction) == GainUpTo(b, direction, Cardinality(Lines(direction)) - 1)

MergesOf(b, direction) == MergesUpTo(b, direction, Cardinality(Lines(direction)) - 1)

\* b2 is b1 slid in the direction
IsSlideOf(b2, b1, direction) ==
    \A k \in Lines(direction) : Line(b2, direction, k) = SlidLine(Line(b1, direction, k))

Cells == (0..(Height - 1)) \X (0..(Width - 1))

NonZeroCells(b) == {p \in Cells : b[p[1]][p[2]] # 0}

----------------------------------------------------------------------------
(* C1: move_left turns every row into its non-zero tiles, equal neighbours *)
(* merged once from the left (a doubled tile is not merged again), written *)
(* from index 0 on and followed by zeros, and adds the sum of the doubled  *)
(* tiles to the score; [0,2,2,0] -> [4,0,0,0] with +4, [2,2,2,2] ->        *)
(* [4,4,0,0] with +8.                                                      *)
C1_MoveLeft ==
    (pc \in {"moved", "panic"} /\ input = "Left") =>
        /\ pc = "moved"
        /\ IsSlideOf(board, board_before_move, "Left")
        /\ score = score_before + GainOf(board_before_move, "Left")
        /\ board_before_move = AsBoard(<< <<0, 2, 2, 0>> >>)
              => board = AsBoard(<< <<4, 0, 0, 0>> >>) /\ score = score_before + 4
        /\ board_before_move = AsBoard(<< <<2, 2, 2, 2>> >>)
              => board = AsBoard(<< <<4, 4, 0, 0>> >>) /\ score = score_before + 8

C1_Witness ==
    /\ pc = "moved" /\ input = "Left"
    /\ board_before_move = AsBoard(<< <<2, 2, 2, 2>> >>)
    /\ board = AsBoard(<< <<4, 4, 0, 0>> >>)
    /\ score = score_before + 8

----------------------------------------------------------------------------
(* Mirrors of a board *)

RevRows(b) == [i \in DOMAIN b |-> [j \in DOMAIN b[i] |-> b[i][len(b[i]) - 1 - j]]]

\* the transpose of a board of the given width and height
Transpose(b, width, height) ==
    [j \in 0..(width - 1) |-> [i \in 0..(height - 1) |-> b[i][j]]]

\* the outcome [board, score, panic] the mirrored algorithm gives for the
\* move that has just acted
MirrorOutcome ==
    LET before == [board |-> board_before_move, score |-> score_before, panic |-> FALSE]
        transposed == [before EXCEPT !.board = Transpose(board_before_move, Width, Height)]
    IN  CASE input = "Right" ->
               LET m == move_left([before EXCEPT !.board = RevRows(board_before_move)],
                                  Width, Height)
               IN  [m EXCEPT !.board = RevRows(m.board)]
          [] input = "Up" ->
               LET m == move_left(transposed, Height, Width)
               IN  [m EXCEPT !.board = Transpose(m.board, Height, Width)]
          [] input = "Down" ->
               LET m == move_right(transposed, Height, Width)
               IN  [m EXCEPT !.board = Transpose(m.board, Height, Width)]

(* C2: move_right gives the grid and the score of reversing every row,     *)
(* applying move_left and reversing back; move_up those of transposing,    *)
(* applying move_left and transposing back; move_down those of             *)
(* transposing, applying move_right and transposing back; [2,0,0,2] Right  *)
(* -> [0,0,0,4] with +4, [[2,0],[2,0]] Down -> [[0,0],[4,0]] with +4.      *)
C2_Mirrors ==
    (pc \in {"moved", "panic"} /\ input \in {"Right", "Up", "Down"}) =>
        /\ (pc = "panic") = MirrorOutcome.panic
        /\ board = MirrorOutcome.board
        /\ score = MirrorOutcome.score
        /\ (input = "Right" /\ board_before_move = AsBoard(<< <<2, 0, 0, 2>> >>))
              => board = AsBoard(<< <<0, 0, 0, 4>> >>) /\ score = score_before + 4
        /\ (input = "Down" /\ board_before_move = AsBoard(<< <<2, 0>>, <<2, 0>> >>))
              => board = AsBoard(<< <<0, 0>>, <<4, 0>> >>) /\ score = score_before + 4

\* C2 on the builds without overflow checks, where no move panics
C2_MirrorsWrapping == ~overflow_checks => C2_Mirrors

----------------------------------------------------------------------------
(* C3: play_move on a direction key and a non-terminal board returns       *)
(* NextMove exactly when the slide changed at least one cell and NoMove    *)
(* otherwise; on NoMove the grid and the score are those before the call   *)
(* and no tile is injected.                                                *)
DirectionHandled ==
    /\ pc \in {"match", "panic"}
    /\ input # "none"
    /\ try_from(input) \in Directions

SlideChanged == \E p \in Cells : slid[p[1]][p[2]] # board_before_move[p[1]][p[2]]

C3_NoMoveDetection ==
    DirectionHandled =>
        /\ result \in {"NextMove", "NoMove"}
        /\ (result = "NextMove") <=> SlideChanged
        /\ (result = "NoMove") <=> ~SlideChanged
        /\ result = "NoMove" => board = board_before_move /\ score = score_before

\* C3 for the calls that return
C3_WhenReturning == (DirectionHandled /\ pc = "match") => C3_NoMoveDetection

----------------------------------------------------------------------------
(* C4: a play_move that returns NextMove injects exactly one tile: the     *)
(* grid is the slid grid except in one cell, empty after the slide and now *)
(* 2 or 4; the number of non-zero tiles is the number before the call      *)
(* minus the number of merges plus one; add_random_tile found a free cell. *)
Injected == {p \in Cells : board[p[1]][p[2]] # slid[p[1]][p[2]]}

C4_OneTileInjected ==
    (pc = "match" /\ result = "NextMove") =>
        /\ Cardinality(Injected) = 1
        /\ \A p \in Injected : slid[p[1]][p[2]] = 0 /\ board[p[1]][p[2]] \in {2, 4}
        /\ Cardinality(NonZeroCells(board))
              = Cardinality(NonZeroCells(board_before_move))
                  - MergesOf(board_before_move, try_from(input)) + 1
        /\ free_tiles(slid, Width, Height) # {}

\* a successful move with two merges, on a board that was full
C4_Witness ==
    /\ pc = "match" /\ result = "NextMove"
    /\ NonZeroCells(board_before_move) = Cells
    /\ MergesOf(board_before_move, try_from(input)) = 2
    /\ Cardinality(NonZeroCells(board)) = Cardinality(Cells) - 1

----------------------------------------------------------------------------
(* C5: game_over() is true exactly when every cell is non-zero and no two  *)
(* horizontally adjacent cells of a row and no two vertically adjacent     *)
(* cells of a column are equal; it changes neither grid nor score;         *)
(* [[2,4],[4,2]] is game-over, [[2,4],[4,0]] is not.                       *)
NoEqualNeighbours(b) ==
    /\ \A i \in 0..(Height - 1) : \A j \in 0..(Width - 2) : b[i][j] # b[i][j + 1]
    /\ \A i \in 0..(Height - 2) : \A j \in 0..(Width - 1) : b[i][j] # b[i + 1][j]

C5_GameOver ==
    pc = "asked" =>
        /\ (result = "true") <=> (NonZeroCells(board_before_move) = Cells
                                    /\ NoEqualNeighbours(board_before_move))
        /\ NonZeroCells(board_before_move) # Cells => result = "false"
        /\ board = board_before_move /\ score = score_before
        /\ board_before_move = AsBoard(<< <<2, 4>>, <<4, 2>> >>) => result = "true"
        /\ board_before_move = AsBoard(<< <<2, 4>>, <<4, 0>> >>) => result = "false"

C5_Witness ==
    /\ pc = "asked"
    /\ board_before_move = AsBoard(<< <<2, 4>>, <<4, 2>> >>)
    /\ result = "true"

----------------------------------------------------------------------------
(* C6: for width >= 1 and height >= 1 the factory fails exactly when       *)
(* count = 0 ("Empty board!"), count = width*height ("Full board!") or     *)
(* count > width*height ("Overflow!") and succeeds when                    *)
(* 0 < count < width*height; on failure there is no grid and no Game.      *)
FactoryErrors == {"Empty board!", "Full board!", "Overflow!"}

ValidConfig == 0 < config.count /\ config.count < config.width * config.height

C6_FactoryErrors ==
    (config.width >= 1 /\ config.height >= 1 /\ pc # "start") =>
        /\ (result = "Empty board!") <=> (config.count = 0)
        /\ (result = "Full board!") <=> (config.count = config.width * config.height)
        /\ (result = "Overflow!") <=> (config.count > config.width * config.height)
        /\ (result \notin FactoryErrors) <=> ValidConfig
        /\ result \in FactoryErrors => board = NoBoard /\ pc = "done"
        /\ result \notin FactoryErrors => board # NoBoard

C6_Witness ==
    /\ config.width >= 1 /\ config.height >= 1
    /\ pc = "done"
    /\ result = "Full board!"
    /\ board = NoBoard

----------------------------------------------------------------------------
(* C7: for a valid config the factory's grid has height rows of width      *)
(* cells, exactly count non-zero cells at pairwise-distinct positions,     *)
(* each 2 or 4, every other cell 0, and the new game's score is 0.         *)
FreshGame == pc = "loop" /\ result = "Ok"

C7_FactoryBoard ==
    FreshGame =>
        /\ ValidConfig
        /\ DOMAIN board = 0..(Height - 1)
        /\ \A i \in DOMAIN board : DOMAIN board[i] = 0..(Width - 1)
        /\ unique_positions \subseteq Cells
        /\ Cardinality(unique_positions) = config.count
        /\ NonZeroCells(board) = unique_positions
        /\ Cardinality(NonZeroCells(board)) = config.count
        /\ \A p \in Cells : board[p[1]][p[2]] \in {0, 2, 4}
        /\ score = 0

\* a fresh 2x2 game with three tiles, a 2 and a 4 among them
C7_Witness ==
    /\ FreshGame
    /\ Width = 2 /\ Height = 2 /\ config.count = 3
    /\ \E p \in Cells : board[p[1]][p[2]] = 2
    /\ \E p \in Cells : board[p[1]][p[2]] = 4

----------------------------------------------------------------------------
(* C8: within a game the score starts at 0, never decreases, and every     *)
(* play_move changes it by exactly the sum of the tiles its move produced  *)
(* by merges (so only a call that merges changes it).                      *)
LastGain ==
    IF input # "none" /\ try_from(input) \in Directions
    THEN GainOf(board_before_move, try_from(input))
    ELSE 0

C8_Score ==
    /\ FreshGame => score = 0
    /\ pc \in {"loop", "match", "panic", "done"} /\ board # NoBoard =>
          /\ score = score_before + LastGain
          /\ score >= score_before
          /\ (score # score_before) <=>
                (/\ input # "none"
                 /\ try_from(input) \in Directions
                 /\ MergesOf(board_before_move, try_from(input)) >= 1)

\* a move that merged, in a game whose score was already positive
C8_Witness ==
    /\ pc = "match" /\ result = "NextMove"
    /\ score_before > 0
    /\ score > score_before
    /\ score = score_before + LastGain

----------------------------------------------------------------------------
(* C9: play_move reading an unrecognized key, a quit key or a reset key on *)
(* a non-terminal board returns UnknownKeyPress, Exit or Reset (never      *)
(* NoMove or NextMove), and leaves the grid and the score as they were.    *)
QuitKeys == {"q", "Q", "Esc"}
ResetKeys == {"r", "R"}
DirectionKeys == {"w", "W", "Up", "s", "S", "Down", "a", "A", "Left", "d", "D", "Right"}

C9_OtherInput ==
    (pc \in {"match", "panic"} /\ input # "none" /\ input \notin DirectionKeys) =>
        /\ pc = "match"
        /\ input \in QuitKeys => result = "Exit"
        /\ input \in ResetKeys => result = "Reset"
        /\ input \notin QuitKeys \cup ResetKeys => result = "UnknownKeyPress"
        /\ board = board_before_move
        /\ slid = board_before_move
        /\ score = score_before

\* an unrecognized key read in a game that already has a score
C9_Witness ==
    /\ pc = "match"
    /\ input = "x"
    /\ result = "UnknownKeyPress"
    /\ score > 0
    /\ board = board_before_move

----------------------------------------------------------------------------
(* C10: in every state reachable from a factory board by moves and         *)
(* injections every cell is 0 or a power of two that is at least 2.        *)
RECURSIVE IsPowerOfTwo(_)
IsPowerOfTwo(v) == v = 2 \/ (v > 2 /\ v % 2 = 0 /\ IsPowerOfTwo(v \div 2))

IsTile(v) == v = 0 \/ IsPowerOfTwo(v)

TilesOnly(b) == b # NoBoard => \A p \in Cells : IsTile(b[p[1]][p[2]])

C10_PowersOfTwo == TilesOnly(board) /\ TilesOnly(slid)

\* a tile of 16, which only repeated merges produce
C10_Witness ==
    /\ pc = "match"
    /\ \E p \in Cells : board[p[1]][p[2]] = 16

----------------------------------------------------------------------------
(* C11: a slide conserves the sum of all tiles whatever it merges; a       *)
(* play_move returning NextMove raises the sum by exactly the injected     *)
(* tile, 2 or 4; every other outcome leaves the sum unchanged.             *)
RECURSIVE SeqSum(_)
SeqSum(tiles) == IF Len(tiles) = 0 THEN 0 ELSE tiles[1] + SeqSum(Tail(tiles))

RECURSIVE RowsSum(_, _)
RowsSum(b, k) ==
    IF k < 0 THEN 0 ELSE SeqSum(Line(b, "Left", k)) + RowsSum(b, k - 1)

BoardSum(b) == IF b = NoBoard THEN 0 ELSE RowsSum(b, Height - 1)

C11_MassConserved ==
    (pc \in {"match", "moved", "panic"} \/ (pc = "done" /\ result = "IoError")) =>
        /\ BoardSum(slid) = BoardSum(board_before_move)
        /\ result = "NextMove" =>
              /\ BoardSum(board) - BoardSum(board_before_move) \in {2, 4}
              /\ \E p \in Cells :
                    /\ slid[p[1]][p[2]] = 0
                    /\ BoardSum(board) = BoardSum(board_before_move) + board[p[1]][p[2]]
        /\ result # "NextMove" => BoardSum(board) = BoardSum(board_before_move)

\* a successful move that merged two pairs; the sum grew by the injected 4
C11_Witness ==
    /\ pc = "match" /\ result = "NextMove"
    /\ MergesOf(board_before_move, try_from(input)) = 2
    /\ BoardSum(slid) = BoardSum(board_before_move)
    /\ BoardSum(board) = BoardSum(board_before_move) + 4

----------------------------------------------------------------------------
(* C12: on a grid whose every line of the pressed direction is already     *)
(* compacted against that direction's edge and has no two neighbouring     *)
(* equal tiles, play_move returns NoMove, grid and score are as before     *)
(* and no tile is injected; the state being the same, pressing the         *)
(* direction again gives the same once more.                               *)
CompactedLine(line) ==
    \A n \in 1..(Len(line) - 1) :
        /\ line[n] = 0 => line[n + 1] = 0
        /\ line[n] # 0 => line[n] # line[n + 1]

Settled(b, direction) ==
    \A k \in Lines(direction) : CompactedLine(Line(b, direction, k))

C12_SettledIsNoMove ==
    (DirectionHandled /\ Settled(board_before_move, try_from(input))) =>
        /\ result = "NoMove"
        /\ board = board_before_move
        /\ slid = board_before_move
        /\ score = score_before

\* C12 for the calls that return
C12_WhenReturning == pc # "panic" => C12_SettledIsNoMove

\* C12 for Left and Up, which have no decreasing index
C12_LeftUp == try_from(input) \in {"Left", "Up"} => C12_SettledIsNoMove

\* a settled grid with tiles on it was pressed toward its edge and play_move returned
C12_Returned ==
    /\ DirectionHandled /\ pc = "match" /\ overflow_checks
    /\ try_from(input) = "Down"
    /\ Settled(board_before_move, "Down")
    /\ Cardinality(NonZeroCells(board_before_move)) >= 2

----------------------------------------------------------------------------
(* C13: a play_move called on a terminal board returns GameOver without    *)
(* reading input and leaves grid and score alone; GameOver is returned     *)
(* only on a terminal board; after GameOver the driver loop ends and       *)
(* nothing more happens; a successful move never starts from a terminal    *)
(* board, so a board made terminal by the injected tile is reported        *)
(* NextMove by that call and GameOver by the next one.                     *)
Terminal(b) == NonZeroCells(b) = Cells /\ NoEqualNeighbours(b)

C13_TerminalFirst ==
    [][ /\ (pc = "loop" /\ Terminal(board)) =>
               /\ result' = "GameOver"
               /\ input' = "none"
               /\ board' = board
               /\ score' = score
               /\ pc' = "match"
        /\ (pc = "loop" /\ result' = "GameOver") => Terminal(board)
        /\ (pc = "loop" /\ result' = "NextMove") => ~Terminal(board)
        /\ (pc = "match" /\ result = "GameOver") =>
               /\ pc' = "done"
               /\ result' = "GameOver"
               /\ board' = board
               /\ score' = score
        /\ pc # "done"
      ]_vars

\* the session ended on GameOver after successful moves filled the board
C13_Witness ==
    /\ pc = "done" /\ result = "GameOver"
    /\ input = "none"
    /\ moves >= 1
    /\ Terminal(board)
    /\ board = board_before_move /\ score = score_before

\* the injected tile made the board terminal and the call returned NextMove
C13_TerminalByInjection ==
    /\ pc = "match" /\ result = "NextMove"
    /\ ~Terminal(slid)
    /\ Terminal(board)

----------------------------------------------------------------------------
(* C14: in each line of a directional move a tile is paired only with the  *)
(* first non-zero tile after it in scan order: the non-zero tiles after    *)
(* the move are the once-merged non-zero tiles before it; a line where no  *)
(* two consecutive non-zero tiles are equal keeps its tiles even when      *)
(* equal tiles stand on both sides of a different one, and adds nothing    *)
(* to the score; equal tiles with only empty cells between them merge.     *)
(* [2,4,2,0] moved Left stays [2,4,2,0]; [2,0,0,2] becomes [4,0,0,0].      *)
NoConsecutiveEqual(tiles) == \A n \in 1..(Len(tiles) - 1) : tiles[n] # tiles[n + 1]

C14_FirstNonZeroOnly ==
    pc \in {"moved", "panic"} =>
        /\ \A k \in Lines(input) :
              LET before == NonZero(Line(board_before_move, input, k))
                  after  == NonZero(Line(board, input, k))
              IN  /\ after = Merged(before)
                  /\ NoConsecutiveEqual(before) => after = before
                  /\ (Len(before) >= 2 /\ before[1] = before[2]) =>
                        /\ after[1] = 2 * before[1]
                        /\ Len(after) < Len(before)
        /\ (\A k \in Lines(input) :
               NoConsecutiveEqual(NonZero(Line(board_before_move, input, k))))
               => score = score_before
        /\ (input = "Left" /\ board_before_move = AsBoard(<< <<2, 4, 2, 0>> >>)) =>
               board = board_before_move /\ score = score_before
        /\ (input = "Left" /\ board_before_move = AsBoard(<< <<2, 0, 0, 2>> >>)) =>
               board = AsBoard(<< <<4, 0, 0, 0>> >>) /\ score = score_before + 4

\* [2,4,2,0] was moved Left and is unchanged
C14_Witness ==
    /\ pc = "moved" /\ input = "Left"
    /\ board_before_move = AsBoard(<< <<2, 4, 2, 0>> >>)
    /\ board = AsBoard(<< <<2, 4, 2, 0>> >>)
    /\ score = score_before

\* [2,0,0,2] was moved Left and merged
C14_MergedAcrossZeros ==
    /\ pc = "moved" /\ input = "Left"
    /\ board_before_move = AsBoard(<< <<2, 0, 0, 2>> >>)
    /\ board = AsBoard(<< <<4, 0, 0, 0>> >>)

----------------------------------------------------------------------------
(* C15: whenever play_move is about to be called, game_over() is true      *)
(* exactly when no direction would be a successful move, so on a board     *)
(* that is not terminal at least one of Left, Right, Up, Down returns      *)
(* NextMove.                                                               *)
Slide(direction) ==
    slide([board |-> board, score |-> score, panic |-> FALSE],
          direction, Width, Height)

Successful(direction) ==
    /\ ~Slide(direction).panic
    /\ ~equal_boards(Slide(direction).board, board)

C15_NeverStuck ==
    pc = "loop" =>
        /\ game_over(board, Width, Height) <=> Terminal(board)
        /\ game_over(board, Width, Height) <=> (\A d \in Directions : ~Successful(d))
        /\ ~game_over(board, Width, Height) => \E d \in Directions : Successful(d)

\* C15 for builds without overflow checks
C15_Wrapping == ~overflow_checks => C15_NeverStuck

\* game_over() agrees with the terminal grids in every build
C15_GameOverIsTerminal == pc = "loop" => (game_over(board, Width, Height) <=> Terminal(board))

\* a board that is not terminal where Left and Up change nothing
C15_Stuck ==
    /\ pc = "loop" /\ overflow_checks
    /\ ~game_over(board, Width, Height)
    /\ \A d \in Directions : ~Successful(d)
    /\ Slide("Right").panic /\ Slide("Down").panic

----------------------------------------------------------------------------
(* C16: every Right and Down move runs to completion: the decrement of the *)
(* write index j never takes it below 0, so play_move returns NextMove or  *)
(* NoMove for these keys on every reachable board.                         *)
C16_NoArithmeticFault ==
    (DirectionHandled /\ try_from(input) \in {"Right", "Down"}) =>
        /\ pc = "match"
        /\ result \in {"NextMove", "NoMove"}

\* the fault is the decrement at j = 0: it needs overflow checks, Right or
\* Down, and a line of that direction left without a zero by the merge pass
C16_FaultOnFullLine ==
    pc = "panic" =>
        /\ overflow_checks
        /\ DirectionHandled /\ try_from(input) \in {"Right", "Down"}
        /\ \E k \in Lines(try_from(input)) :
              /\ NonZero(Line(slid, try_from(input), k)) = Line(slid, try_from(input), k)
              /\ Merges(NonZero(Line(board_before_move, try_from(input), k))) = 0

\* with overflow checks, Right and Down return exactly when every line of
\* the direction keeps a zero after the merge pass
C16_ReturnsIffZeroLeft ==
    (DirectionHandled /\ overflow_checks /\ try_from(input) \in {"Right", "Down"}) =>
        (pc = "match" <=>
            \A k \in Lines(try_from(input)) :
               Len(Merged(NonZero(Line(board_before_move, try_from(input), k))))
                 < Len(Line(board_before_move, try_from(input), k)))

----------------------------------------------------------------------------
(* C19: when play_move has returned Reset the driver's next step installs  *)
(* a new factory-made game with the same width, height and count: score 0  *)
(* and exactly count non-zero tiles, each 2 or 4, whatever the grid and    *)
(* score were; the config and the dimensions of the grid never change in   *)
(* any step of a session.                                                  *)
HasDimensions(b, c) ==
    /\ DOMAIN b = 0..(c.height - 1)
    /\ \A i \in DOMAIN b : DOMAIN b[i] = 0..(c.width - 1)

C19_Reset ==
    [][ /\ (pc = "match" /\ result = "Reset") =>
               /\ pc' = "loop" /\ result' = "Ok"
               /\ config' = config
               /\ score' = 0
               /\ HasDimensions(board', config)
               /\ Cardinality(NonZeroCells(board')) = config.count
               /\ \A p \in NonZeroCells(board') : board'[p[1]][p[2]] \in {2, 4}
        /\ config' = config
        /\ board # NoBoard => HasDimensions(board, config) /\ HasDimensions(board', config)
      ]_vars

\* Reset is returned on a board holding a merged tile and a positive score,
\* with another number of tiles than count: the driver's next step replaces it
C19_Witness ==
    /\ pc = "match" /\ result = "Reset"
    /\ score > 0
    /\ \E p \in Cells : board[p[1]][p[2]] = 8
    /\ Cardinality(NonZeroCells(board)) # config.count

----------------------------------------------------------------------------
(* C20: for 0 < count < width*height the sampling loop of the factory,     *)
(* every position being drawn at some time, ends, and ends with exactly    *)
(* count distinct positions in range; while it runs the set of chosen      *)
(* positions only grows, by one position per round at most, and never      *)
(* holds more than count.                                                  *)
C20_SamplingTerminates ==
    /\ (pc = "random_board" /\ ValidConfig) ~> (pc = "returned")
    /\ [](pc \in {"while", "returned"} =>
            /\ ValidConfig
            /\ unique_positions \subseteq Positions(config)
            /\ Cardinality(unique_positions) <= config.count)
    /\ [](pc = "returned" =>
            /\ Cardinality(unique_positions) = config.count
            /\ unique_positions \in sample_positions(config, {})
            /\ NonZeroCells(board) = unique_positions)
    /\ [][ /\ unique_positions \subseteq unique_positions'
           /\ Cardinality(unique_positions') <= Cardinality(unique_positions) + 1
           /\ pc # "while" => unique_positions' = unique_positions
         ]_vars

\* the loop ended after drawing three positions of a 2x2 grid
C20_Witness ==
    /\ pc = "returned"
    /\ config = [width |-> 2, height |-> 2, count |-> 3]
    /\ Cardinality(unique_positions) = 3

----------------------------------------------------------------------------
(* C18: in every state of a game played to its end on a width x height     *)
(* grid every tile, before and after the injection, is at most             *)
(* 2^(width*height+1), so a tile that is doubled is at most                *)
(* 2^(width*height); every merge leaves a non-zero tile: the slid grid has *)
(* one tile less per merge and no fewer.                                   *)
TileBound == Pow2(Width * Height + 1)

C18_TileBound ==
    board # NoBoard =>
        /\ \A p \in Cells : board[p[1]][p[2]] <= TileBound
        /\ slid # NoBoard =>
              /\ \A p \in Cells : slid[p[1]][p[2]] <= TileBound
              /\ \A p \in Cells : board_before_move[p[1]][p[2]] <= TileBound
        /\ (DirectionHandled /\ pc = "match") =>
              /\ \A p \in Cells :
                    slid[p[1]][p[2]] > board_before_move[p[1]][p[2]] =>
                        slid[p[1]][p[2]] # 0 /\ slid[p[1]][p[2]] \div 2 <= TileBound \div 2
              /\ Cardinality(NonZeroCells(slid)) =
                    Cardinality(NonZeroCells(board_before_move))
                      - MergesOf(board_before_move, try_from(input))

\* a merge made the largest tile the bound allows on a grid of three cells
C18_Witness ==
    /\ DirectionHandled /\ pc = "match"
    /\ Width * Height = 3
    /\ \E p \in Cells :
          /\ slid[p[1]][p[2]] = TileBound
          /\ board_before_move[p[1]][p[2]] = TileBound \div 2

----------------------------------------------------------------------------
(* The session of a player who keeps moving: each play_move call reads a   *)
(* direction that is a successful move whenever there is one, and a        *)
(* direction key in any case; getch does not fail.                         *)
KeepsMoving ==
    /\ result' \in {"GameOver", "NextMove", "NoMove", "panic"}
    /\ (\E d \in Directions : Successful(d)) => result' = "NextMove"

LivePlay == PlayMoveToEnd /\ KeepsMoving

NextLive == NewGame \/ LivePlay \/ MainMatch

\* the process keeps running: no step that can be taken is put off forever.
\* A play_move step is possible exactly when pc = "loop", with this player
\* as with any, and every play_move step of NextLive is a LivePlay step.
SpecLive ==
    /\ Init
    /\ [][NextLive]_vars
    /\ WF_vars(NewGame)
    /\ WF_vars(PlayMoveToEnd)
    /\ WF_vars(MainMatch)

----------------------------------------------------------------------------
(* C17: a game cannot go on forever: every NextMove raises the sum of the  *)
(* board by at least 2, so no grid comes back after a successful move,     *)
(* and when the player keeps making a successful move whenever there is    *)
(* one, play_move eventually returns GameOver.                             *)
C17_GameEnds ==
    /\ [][result' = "NextMove" => BoardSum(board') >= BoardSum(board) + 2]_vars
    /\ FreshGame ~> (result = "GameOver")

\* the sum grows with every successful move, in every build
C17_SumGrows ==
    [][result' = "NextMove" => BoardSum(board') >= BoardSum(board) + 2]_vars

\* C17 for builds without overflow checks
C17_Wrapping == (FreshGame /\ ~overflow_checks) ~> (result = "GameOver")

\* with overflow checks a game played this way ends in GameOver or on a
\* board where Right and Down fault and Left and Up move nothing
C17_EndsOrStuck ==
    FreshGame ~> (result = "GameOver" \/ (overflow_checks /\ result \in {"NoMove", "panic"}))

====
